---- MODULE Spec2Model ----
(***************************************************************************)
(* PassApplePython, src/main.py: the bounding-box reader                   *)
(* (load_bounding_box), the spherical bulge warp (apply_bulge_effect) and  *)
(* the masking / compositing pipeline (create_masked_overlay).             *)
(*                                                                         *)
(* Rasters are sequences of rows of pixels: img[y + 1][x + 1] is the pixel *)
(* at column x, row y; a pixel is <<r, g, b>> or <<r, g, b, a>> of 8-bit   *)
(* values.  Python's None is the empty tuple.  Real arithmetic of the warp *)
(* is carried in fixed point: Scale units make 1.                          *)
(***************************************************************************)
EXTENDS Integers, Sequences, FiniteSets, TLC

\* ------------------------------------------------------------------ bounds
\* Raster width and height in pixels (all three rasters of a run share them).
Width == 6
Height == 5
\* Fixed-point resolution: Scale units are 1.0.
Scale == 1000
\* Longest bounding-box file, in lines, that the reader is applied to.
MaxLines == 2

\* ------------------------------------------------------- program constants
\* np.argwhere(mask_np >= 10)
Threshold == 10
None == <<>>

Min(a, b) == IF a < b THEN a ELSE b
Max(a, b) == IF a > b THEN a ELSE b
Abs(a) == IF a < 0 THEN -a ELSE a

Xs == 0 .. (Width - 1)
Ys == 0 .. (Height - 1)

\* image[y][x] of the numpy view; image.getpixel((x, y)) of PIL.
Px(img, x, y) == img[y + 1][x + 1]

\* A raster of the model's size given pixel by pixel.
MakeImage(F(_, _)) == [yy \in 1 .. Height |-> [xx \in 1 .. Width |-> F(xx - 1, yy - 1)]]

\* ----------------------------------------------------- load_bounding_box
Digits == <<"0", "1", "2", "3", "4", "5", "6", "7", "8", "9">>
DigitSet == {Digits[i] : i \in 1 .. 10}
Whitespace == {" ", "\n", "\t"}

\* content.replace(',', ' ')
ReplaceCommas(s) == [i \in 1 .. Len(s) |-> IF s[i] = "," THEN " " ELSE s[i]]

\* str.split(): the maximal runs of non-whitespace characters, in order.
RECURSIVE SplitFrom(_, _, _, _)
SplitFrom(s, i, cur, acc) ==
    IF i > Len(s)
    THEN IF cur = <<>> THEN acc ELSE Append(acc, cur)
    ELSE IF s[i] \in Whitespace
         THEN SplitFrom(s, i + 1, <<>>, IF cur = <<>> THEN acc ELSE Append(acc, cur))
         ELSE SplitFrom(s, i + 1, Append(cur, s[i]), acc)

Split(s) == SplitFrom(s, 1, <<>>, <<>>)

\* The digits of a token after its optional sign.
Unsigned(t) == IF Len(t) > 0 /\ t[1] \in {"+", "-"} THEN Tail(t) ELSE t

\* int(v) succeeds: an optional sign and at least one decimal digit.
IsIntToken(t) ==
    /\ Len(Unsigned(t)) > 0
    /\ \A i \in 1 .. Len(Unsigned(t)) : Unsigned(t)[i] \in DigitSet

DigitValue(c) == (CHOOSE i \in 1 .. 10 : Digits[i] = c) - 1

RECURSIVE DigitsValue(_, _)
DigitsValue(d, n) == IF n = 0 THEN 0 ELSE 10 * DigitsValue(d, n - 1) + DigitValue(d[n])

\* int(v) for a token int() accepts.
IntOf(t) ==
    LET v == DigitsValue(Unsigned(t), Len(Unsigned(t)))
    IN IF t[1] = "-" THEN -v ELSE v

\* Faulty variant: the commas are not turned into spaces before splitting.
load_bounding_box_KeepCommas(file) ==
    IF ~file.exists THEN None
    ELSE LET tokens == Split(file.content)
         IN IF \E i \in 1 .. Len(tokens) : ~IsIntToken(tokens[i]) THEN None
            ELSE IF Len(tokens) = 4 THEN [i \in 1 .. 4 |-> IntOf(tokens[i])]
            ELSE None

\* Faulty variant: a file that is absent or does not parse yields a default box.
load_bounding_box_Default(file) ==
    IF ~file.exists THEN <<0, 0, 0, 0>>
    ELSE LET tokens == Split(ReplaceCommas(file.content))
         IN IF \E i \in 1 .. Len(tokens) : ~IsIntToken(tokens[i]) THEN <<0, 0, 0, 0>>
            ELSE IF Len(tokens) = 4 THEN [i \in 1 .. 4 |-> IntOf(tokens[i])]
            ELSE <<0, 0, 0, 0>>

\* load_bounding_box(path): f.read().strip().replace(',', ' ').split(), then
\* int() of every token (strip() changes nothing that split() keeps).  None
\* when the path does not exist, when int() raises on any token of the whole
\* content (the except clause), or when the tokens are not exactly four.
load_bounding_box(file) ==
    IF ~file.exists THEN None
    ELSE LET tokens == Split(ReplaceCommas(file.content))
         IN IF \E i \in 1 .. Len(tokens) : ~IsIntToken(tokens[i]) THEN None
            ELSE IF Len(tokens) = 4 THEN [i \in 1 .. 4 |-> IntOf(tokens[i])]
            ELSE None

\* ---------------------------------------------------- apply_bulge_effect
VARIABLES
    pc,                 \* position of the call in progress
    SCIPY_AVAILABLE,    \* _SCIPY_AVAILABLE: the import of scipy.ndimage succeeded
    files,              \* the files at mask_path, target_path, background_path, bbox_path
    bbox_path,          \* the bbox_path argument: None or a path
    bbox,               \* bbox of create_masked_overlay / the reader's result
    bulged_apple,       \* the warped reference layer (RGB)
    bulged_apple_gray,  \* the shared alpha mask (L)
    bulged_apple_rgba,  \* layer 1 (RGBA)
    bulged_yake,        \* the warped target layer (RGB)
    clipped_yake_rgba,  \* layer 2 (RGBA)
    final_composition,  \* the composite (RGBA)
    output,             \* the PNG written to output_path, None when none is
    console,            \* the last message printed by create_masked_overlay
    trace               \* the stages of create_masked_overlay executed so far

vars == <<pc, SCIPY_AVAILABLE, files, bbox_path, bbox, bulged_apple, bulged_apple_gray,
          bulged_apple_rgba, bulged_yake, clipped_yake_rgba, final_composition, output,
          console, trace>>

\* Twice center_x and center_y, twice radius_x and radius_y (integers).
CenterX2(box) == box[1] + box[3]
CenterY2(box) == box[2] + box[4]
RadiusX2(box) == box[3] - box[1]
RadiusY2(box) == box[4] - box[2]

\* dist_sq = dx**2 + dy**2 as the fraction DistSqNum / DistSqDen.
DistSqNum(x, y, box) ==
    (2 * x - CenterX2(box)) * (2 * x - CenterX2(box)) * RadiusY2(box) * RadiusY2(box)
    + (2 * y - CenterY2(box)) * (2 * y - CenterY2(box)) * RadiusX2(box) * RadiusX2(box)

DistSqDen(box) == RadiusX2(box) * RadiusX2(box) * RadiusY2(box) * RadiusY2(box)

\* Faulty variant: the ellipse is taken with twice its area (dist_sq <= 2.0).
InEllipse_Wide(x, y, box) ==
    /\ RadiusX2(box) # 0
    /\ RadiusY2(box) # 0
    /\ DistSqNum(x, y, box) <= 2 * DistSqDen(box)

\* mask = dist_sq <= 1.0.  With a zero radius the division yields inf or nan
\* (numpy warns, it does not raise) and the comparison is False everywhere.
InEllipse(x, y, box) ==
    /\ RadiusX2(box) # 0
    /\ RadiusY2(box) # 0
    /\ DistSqNum(x, y, box) <= DistSqDen(box)

\* Floor of the square root, by bisection on lo..hi (lo*lo <= n < (hi+1)*(hi+1)).
RECURSIVE ISqrtIn(_, _, _)
ISqrtIn(n, lo, hi) ==
    IF lo = hi THEN lo
    ELSE LET mid == (lo + hi + 1) \div 2
         IN IF mid * mid <= n THEN ISqrtIn(n, mid, hi) ELSE ISqrtIn(n, lo, mid - 1)

ISqrt(n) == ISqrtIn(n, 0, 2 * Scale)

\* dist = np.sqrt(dist_sq[mask]), in Scale units (only taken inside the ellipse).
Dist(x, y, box) == ISqrt(((DistSqNum(x, y, box) * Scale) \div DistSqDen(box)) * Scale)

\* np.pi / 2 in Scale units.
HalfPi == (355 * Scale) \div 226

\* The arcsine series sum_k a_k t^(2k+1) / (2k+1), a_(k+1) = a_k (2k+1)/(2k+2),
\* summed until the terms vanish; p is a_k t^(2k+1), t2 is t^2.
RECURSIVE AsinSum(_, _, _)
AsinSum(p, t2, k) ==
    IF p = 0 THEN 0
    ELSE p \div (2 * k + 1)
         + AsinSum((((p * t2) \div Scale) * (2 * k + 1)) \div (2 * k + 2), t2, k + 1)

\* np.arcsin(d) for 0 <= d <= 1 in Scale units; beyond sqrt(1/2) by
\* arcsin(d) = pi/2 - arcsin(sqrt(1 - d^2)), where the series converges fast.
Arcsin(d) ==
    IF 2 * d * d <= Scale * Scale
    THEN AsinSum(d, (d * d) \div Scale, 0)
    ELSE LET c == ISqrt(Scale * Scale - d * d)
         IN HalfPi - AsinSum(c, (c * c) \div Scale, 0)

\* Faulty variant: no distortion at all (the factor of a warp of strength 0).
Factor_One(d) == Scale

\* factor: 1 at dist = 0, arcsin(dist) / (dist * (pi / 2)) elsewhere.
Factor(d) == IF d = 0 THEN Scale ELSE (Arcsin(d) * Scale * Scale) \div (d * HalfPi)

Clip(v, lo, hi) == IF v < lo THEN lo ELSE IF v > hi THEN hi ELSE v

\* map_x and map_y after np.clip, in units of 1 / (2 * Scale) pixel:
\* center + new_d * radius = center + (coordinate - center) * factor inside the
\* ellipse, the coordinate itself outside.
MapX(x, y, box) ==
    Clip(IF InEllipse(x, y, box)
         THEN CenterX2(box) * Scale + (2 * x - CenterX2(box)) * Factor(Dist(x, y, box))
         ELSE 2 * x * Scale,
         0, (Width - 1) * 2 * Scale)

MapY(x, y, box) ==
    Clip(IF InEllipse(x, y, box)
         THEN CenterY2(box) * Scale + (2 * y - CenterY2(box)) * Factor(Dist(x, y, box))
         ELSE 2 * y * Scale,
         0, (Height - 1) * 2 * Scale)

\* map_coordinates(channel, [map_y, map_x], order=1, mode='reflect') at one
\* point: bilinear interpolation between the four neighbours, a neighbour one
\* past the edge reflecting onto the edge pixel, rounded to the nearest uint8.
Sample(image, c, sx, sy) ==
    LET U == 2 * Scale
        x0 == sx \div U
        y0 == sy \div U
        fx == sx % U
        fy == sy % U
        x1 == Min(x0 + 1, Width - 1)
        y1 == Min(y0 + 1, Height - 1)
        sum == Px(image, x0, y0)[c] * (U - fx) * (U - fy)
               + Px(image, x1, y0)[c] * fx * (U - fy)
               + Px(image, x0, y1)[c] * (U - fx) * fy
               + Px(image, x1, y1)[c] * fx * fy
    IN (sum + (U * U) \div 2) \div (U * U)

\* apply_bulge_effect(image, bounding_box): the input itself without scipy,
\* otherwise every pixel of every channel resampled at (map_x, map_y).
apply_bulge_effect(image, bounding_box) ==
    IF ~SCIPY_AVAILABLE THEN image
    ELSE MakeImage(LAMBDA x, y :
             LET sx == MapX(x, y, bounding_box)
                 sy == MapY(x, y, bounding_box)
             IN [c \in 1 .. 3 |-> Sample(image, c, sx, sy)])

\* --------------------------------------------------------- Pillow steps
\* Image.convert("L") of an RGB pixel: the ITU-R 601-2 luma, in 16-bit fixed point.
Luma(p) == (p[1] * 19595 + p[2] * 38470 + p[3] * 7471 + 32768) \div 65536

ConvertL(image) == [yy \in 1 .. Height |-> [xx \in 1 .. Width |-> Luma(image[yy][xx])]]

\* Image.convert("RGB") of an RGB raster: a copy.
ConvertRGB(image) == image

\* Image.convert("RGBA") of an RGB raster: opaque.
ConvertRGBA(image) ==
    [yy \in 1 .. Height |-> [xx \in 1 .. Width |->
        <<image[yy][xx][1], image[yy][xx][2], image[yy][xx][3], 255>>]]

\* One box-blur pass along a line, from position i on.  GaussianBlur(radius=0.5)
\* is three box passes per axis of radius 1/22: weight 22/24 on the pixel and
\* 1/24 on each neighbour, the edge pixel standing in for a neighbour past the
\* edge, each pass rounded to 8 bits.
RECURSIVE BlurFrom(_, _)
BlurFrom(line, i) ==
    IF i > Len(line) THEN <<>>
    ELSE <<(22 * line[i] + line[Max(i - 1, 1)] + line[Min(i + 1, Len(line))] + 12) \div 24>>
         \o BlurFrom(line, i + 1)

BlurLine(line) == BlurFrom(line, 1)

\* Column i of a raster, from row j on; the columns from column i on.
RECURSIVE ColumnFrom(_, _, _)
ColumnFrom(gray, i, j) ==
    IF j > Len(gray) THEN <<>> ELSE <<gray[j][i]>> \o ColumnFrom(gray, i, j + 1)

RECURSIVE TransposeFrom(_, _)
TransposeFrom(gray, i) ==
    IF i > Len(gray[1]) THEN <<>>
    ELSE <<ColumnFrom(gray, i, 1)>> \o TransposeFrom(gray, i + 1)

Transpose(gray) == TransposeFrom(gray, 1)

\* The three passes along every row, from row y on.
RECURSIVE BlurRowsFrom(_, _)
BlurRowsFrom(gray, y) ==
    IF y > Len(gray) THEN <<>>
    ELSE <<BlurLine(BlurLine(BlurLine(gray[y])))>> \o BlurRowsFrom(gray, y + 1)

BlurRows(gray) == BlurRowsFrom(gray, 1)

\* Image.filter(ImageFilter.GaussianBlur(radius=0.5)) of an L raster: the
\* rows, then (transposed) the columns.
GaussianBlur(gray) == Transpose(BlurRows(Transpose(BlurRows(gray))))

\* Image.putalpha(alpha) on an RGBA raster.
PutAlpha(image, alpha) ==
    [yy \in 1 .. Height |-> [xx \in 1 .. Width |->
        <<image[yy][xx][1], image[yy][xx][2], image[yy][xx][3], alpha[yy][xx]>>]]

\* Pillow's division by 255 with rounding, and its 8-bit blend.
Div255(a) == (((a + 128) \div 256) + a + 128) \div 256

Blend8(m, out, in) == Div255(out * (255 - m) + in * m)

\* Faulty variant: the mask weights the destination instead of the pasted layer.
Paste_Inverted(dest, layer) ==
    [yy \in 1 .. Height |-> [xx \in 1 .. Width |->
        [c \in 1 .. 4 |-> Blend8(255 - layer[yy][xx][4], dest[yy][xx][c], layer[yy][xx][c])]]]

\* dest.paste(layer, (0, 0), layer): every band of dest blended with the
\* layer's band under the layer's own alpha band.
Paste(dest, layer) ==
    [yy \in 1 .. Height |-> [xx \in 1 .. Width |->
        [c \in 1 .. 4 |-> Blend8(layer[yy][xx][4], dest[yy][xx][c], layer[yy][xx][c])]]]

\* ------------------------------------------------ create_masked_overlay
\* Faulty variant: every pixel that is not black counts (mask_np > 0).
Coords_Positive(gray) == {q \in Xs \X Ys : gray[q[2] + 1][q[1] + 1] > 0}

\* coords = np.argwhere(mask_np >= 10) as a set of <<x, y>>.
Coords(gray) == {q \in Xs \X Ys : gray[q[2] + 1][q[1] + 1] >= Threshold}

SetMin(S) == CHOOSE a \in S : \A b \in S : a <= b
SetMax(S) == CHOOSE a \in S : \A b \in S : a >= b

\* The automatic detection: None when no pixel of the grayscale reference
\* reaches the threshold, else (min_x, min_y, max_x, max_y) of those that do.
DetectBox(mask_img) ==
    LET coords == Coords(ConvertL(mask_img))
        xs == {q[1] : q \in coords}
        ys == {q[2] : q \in coords}
    IN IF coords = {} THEN None
       ELSE <<SetMin(xs), SetMin(ys), SetMax(xs), SetMax(ys)>>

\* Faulty variant: the layer is warped whether or not scipy is there (the map falls
\* back to a plain resampling of the box).
BulgedLayer_Always(image, box) ==
    MakeImage(LAMBDA x, y :
        [c \in 1 .. 3 |-> Sample(image, c, MapX(x, y, box), MapY(x, y, box))])

\* bulged_apple and bulged_yake: apply_bulge_effect(img.convert("RGB"), bbox)
\* with scipy, img.convert("RGB") without.
BulgedLayer(image, box) ==
    IF SCIPY_AVAILABLE THEN apply_bulge_effect(ConvertRGB(image), box)
    ELSE ConvertRGB(image)

\* bulged_apple_gray: the layer's grayscale, then the blur.
BuildMask(bulged) == GaussianBlur(ConvertL(bulged))

\* Faulty variant: the target layer gets a mask of its own.
ClippedYake_OwnMask(yake, gray) == PutAlpha(ConvertRGBA(yake), BuildMask(yake))

\* clipped_yake_rgba: the warped target with the reference's mask as alpha.
ClippedYake(yake, gray) == PutAlpha(ConvertRGBA(yake), gray)

InputNames == {"background", "target", "mask"}

\* Faulty variant: one existing input is enough (any() for all()).
AllExist_Any(fs) == \E n \in InputNames : fs[n].state # "missing"

\* all(os.path.exists(p) for p in [background_path, target_path, mask_path])
AllExist(fs) == \A n \in InputNames : fs[n].state # "missing"

FileMissing == "Error: One or more input files not found."
UsingFile == "Using bounding box from file"
Detected == "Detected bounding box automatically"
NoShape == "Error: No apple shape found for automatic bounding box detection."
Failed == "An error occurred"
Success == "Success: Bounding box coordinated 3D overlay saved"

\* except Exception as e: print(...); the function ends with nothing written.
Raise ==
    /\ pc' = "done"
    /\ console' = Failed

\* Lines 108-116: the existence check on the three inputs.
CheckInputs ==
    /\ pc = "start"
    /\ IF ~AllExist(files)
       THEN pc' = "done" /\ console' = FileMissing
       ELSE pc' = "open" /\ console' = console
    /\ UNCHANGED <<SCIPY_AVAILABLE, files, bbox_path, bbox, bulged_apple, bulged_apple_gray,
                   bulged_apple_rgba, bulged_yake, clipped_yake_rgba, final_composition,
                   output, trace>>

\* Lines 119-121: Image.open of the three inputs reads each header and raises
\* on a file that is not there or that it cannot identify; pixel data is
\* decoded when first used.
OpenImages ==
    /\ pc = "open"
    /\ IF \E n \in InputNames : files[n].state \in {"missing", "unidentified"}
       THEN Raise
       ELSE pc' = "bbox" /\ console' = console
    /\ UNCHANGED <<SCIPY_AVAILABLE, files, bbox_path, bbox, bulged_apple, bulged_apple_gray,
                   bulged_apple_rgba, bulged_yake, clipped_yake_rgba, final_composition,
                   output, trace>>

\* Lines 124-128: the explicit box, when a path is given and the file yields one.
LoadBox ==
    /\ pc = "bbox"
    /\ trace' = Append(trace, "bbox")
    /\ bbox' = IF bbox_path # None THEN load_bounding_box(files.bbox) ELSE None
    /\ pc' = IF bbox' # None THEN "layer1" ELSE "detect"
    /\ console' = IF bbox' # None THEN UsingFile ELSE console
    /\ UNCHANGED <<SCIPY_AVAILABLE, files, bbox_path, bulged_apple, bulged_apple_gray,
                   bulged_apple_rgba, bulged_yake, clipped_yake_rgba, final_composition,
                   output>>

\* Lines 130-143: automatic detection on the reference raster.
Detect ==
    /\ pc = "detect"
    /\ IF files.mask.state = "truncated"
       THEN Raise /\ bbox' = bbox
       ELSE /\ bbox' = DetectBox(files.mask.image)
            /\ IF bbox' = None
               THEN pc' = "done" /\ console' = NoShape
               ELSE pc' = "layer1" /\ console' = Detected
    /\ UNCHANGED <<SCIPY_AVAILABLE, files, bbox_path, bulged_apple, bulged_apple_gray,
                   bulged_apple_rgba, bulged_yake, clipped_yake_rgba, final_composition,
                   output, trace>>

\* Lines 146-149: layer 1, the reference raster bulged.
Layer1Warp ==
    /\ pc = "layer1"
    /\ trace' = Append(trace, "layer1")
    /\ IF files.mask.state = "truncated"
       THEN Raise /\ bulged_apple' = bulged_apple
       ELSE /\ bulged_apple' = BulgedLayer(files.mask.image, bbox)
            /\ pc' = "mask"
            /\ console' = console
    /\ UNCHANGED <<SCIPY_AVAILABLE, files, bbox_path, bbox, bulged_apple_gray,
                   bulged_apple_rgba, bulged_yake, clipped_yake_rgba, final_composition,
                   output>>

\* Lines 152-157: the mask, and layer 1 with the mask as its alpha.
Layer1Mask ==
    /\ pc = "mask"
    /\ bulged_apple_gray' = BuildMask(bulged_apple)
    /\ bulged_apple_rgba' = PutAlpha(ConvertRGBA(bulged_apple), bulged_apple_gray')
    /\ pc' = "layer2"
    /\ UNCHANGED <<SCIPY_AVAILABLE, files, bbox_path, bbox, bulged_apple, bulged_yake,
                   clipped_yake_rgba, final_composition, output, console, trace>>

\* Lines 160-163: layer 2, the target raster bulged with the same box.
Layer2Warp ==
    /\ pc = "layer2"
    /\ trace' = Append(trace, "layer2")
    /\ IF files.target.state = "truncated"
       THEN Raise /\ bulged_yake' = bulged_yake
       ELSE /\ bulged_yake' = BulgedLayer(files.target.image, bbox)
            /\ pc' = "alpha2"
            /\ console' = console
    /\ UNCHANGED <<SCIPY_AVAILABLE, files, bbox_path, bbox, bulged_apple, bulged_apple_gray,
                   bulged_apple_rgba, clipped_yake_rgba, final_composition, output>>

\* Lines 166-167: layer 2 takes the mask of layer 1 as its alpha.
Layer2Alpha ==
    /\ pc = "alpha2"
    /\ clipped_yake_rgba' = ClippedYake(bulged_yake, bulged_apple_gray)
    /\ pc' = "background"
    /\ UNCHANGED <<SCIPY_AVAILABLE, files, bbox_path, bbox, bulged_apple, bulged_apple_gray,
                   bulged_apple_rgba, bulged_yake, final_composition, output, console,
                   trace>>

\* Line 170: the background converted to RGBA.
ConvertBackground ==
    /\ pc = "background"
    /\ trace' = Append(trace, "composition")
    /\ IF files.background.state = "truncated"
       THEN Raise /\ final_composition' = final_composition
       ELSE /\ final_composition' = ConvertRGBA(files.background.image)
            /\ pc' = "paste1"
            /\ console' = console
    /\ UNCHANGED <<SCIPY_AVAILABLE, files, bbox_path, bbox, bulged_apple, bulged_apple_gray,
                   bulged_apple_rgba, bulged_yake, clipped_yake_rgba, output>>

\* Line 173: layer 1 pasted under its own alpha.
PasteLayer1 ==
    /\ pc = "paste1"
    /\ final_composition' = Paste(final_composition, bulged_apple_rgba)
    /\ pc' = "paste2"
    /\ UNCHANGED <<SCIPY_AVAILABLE, files, bbox_path, bbox, bulged_apple, bulged_apple_gray,
                   bulged_apple_rgba, bulged_yake, clipped_yake_rgba, output, console,
                   trace>>

\* Line 176: layer 2 pasted under its own alpha.
PasteLayer2 ==
    /\ pc = "paste2"
    /\ final_composition' = Paste(final_composition, clipped_yake_rgba)
    /\ pc' = "save"
    /\ UNCHANGED <<SCIPY_AVAILABLE, files, bbox_path, bbox, bulged_apple, bulged_apple_gray,
                   bulged_apple_rgba, bulged_yake, clipped_yake_rgba, output, console,
                   trace>>

\* Lines 178-179: the composite written as PNG.
Save ==
    /\ pc = "save"
    /\ trace' = Append(trace, "save")
    /\ output' = final_composition
    /\ console' = Success
    /\ pc' = "done"
    /\ UNCHANGED <<SCIPY_AVAILABLE, files, bbox_path, bbox, bulged_apple, bulged_apple_gray,
                   bulged_apple_rgba, bulged_yake, clipped_yake_rgba, final_composition>>

\* ------------------------------------------------------------- the inputs
\* Lines of a bounding-box file, as sequences of characters.
LineComment == <<"#", " ", "c", "o", "m", "m", "e", "n", "t">>
LineFull == <<"0", ",", "0", ",", "5", ",", "4">>
LineInner == <<"1", " ", "1", " ", "4", " ", "3">>
LineFlat == <<"2", " ", "2", " ", "2", " ", "4">>
LineWord == <<"0", " ", "0", " ", "x", " ", "4">>
LineShort == <<"1", " ", "2", " ", "3">>
LineScenario == <<"5", ",", "5", ",", "2", "0", ",", "2", "0">>
LineHalfA == <<"0", " ", "0">>
LineHalfB == <<"5", " ", "4">>
LineBlank == <<>>

Lines == {LineComment, LineBlank, LineFull, LineInner, LineFlat, LineWord, LineShort,
          LineScenario, LineHalfA, LineHalfB}

\* The characters of a file made of the given lines.
RECURSIVE JoinLines(_)
JoinLines(ls) ==
    IF Len(ls) = 0 THEN <<>>
    ELSE IF Len(ls) = 1 THEN ls[1]
    ELSE ls[1] \o <<"\n">> \o JoinLines(Tail(ls))

AbsentFile == [exists |-> FALSE, content |-> <<>>]
TextFile(ls) == [exists |-> TRUE, content |-> JoinLines(ls)]

LineSeqs == UNION {[1 .. n -> Lines] : n \in 1 .. MaxLines}

\* The bounding-box files the reader is applied to on its own.
AllBoxFiles == {AbsentFile} \cup {TextFile(ls) : ls \in LineSeqs}

\* The bounding-box files of the pipeline runs.
RunBoxFiles ==
    {AbsentFile, TextFile(<<LineFull>>), TextFile(<<LineInner>>), TextFile(<<LineFlat>>),
     TextFile(<<LineShort>>), TextFile(<<LineComment, LineFull>>)}

\* os.path.join("input", "bounding_box.txt")
BoxPath == <<"input", "bounding_box.txt">>

Cheb(x, y, cx, cy) == Max(Abs(x - cx), Abs(y - cy))
Grey(v) == <<v, v, v>>

\* Reference rasters: a cone of light around (2, 2); all black; all just
\* under the threshold; one lit pixel; one row exactly at the threshold; black
\* left and white right; all white; a coloured gradient.
RefCone == MakeImage(LAMBDA x, y : Grey(Max(0, 255 - 64 * Cheb(x, y, 2, 2))))
RefDark == MakeImage(LAMBDA x, y : Grey(0))
RefDim == MakeImage(LAMBDA x, y : Grey(Threshold - 1))
RefDot == MakeImage(LAMBDA x, y : IF x = 2 /\ y = 2 THEN Grey(255) ELSE Grey(0))
RefRow == MakeImage(LAMBDA x, y :
              IF y = 2 /\ x \in 1 .. 3 THEN Grey(Threshold) ELSE Grey(Threshold - 1))
RefStep == MakeImage(LAMBDA x, y : IF x >= 3 THEN Grey(255) ELSE Grey(0))
RefWhite == MakeImage(LAMBDA x, y : Grey(255))
RefColour == MakeImage(LAMBDA x, y : <<30 * x + 20, 40 * y + 10, 90>>)

RefImages == {RefCone, RefDark, RefDim, RefDot, RefRow, RefStep, RefWhite, RefColour}

TargetGrad == MakeImage(LAMBDA x, y : <<30 * x + 10, 40 * y, 200>>)
TargetRed == MakeImage(LAMBDA x, y : <<255, 0, 0>>)
TargetImages == {TargetGrad, TargetRed}

BgWhite == MakeImage(LAMBDA x, y : Grey(255))
BgGrad == MakeImage(LAMBDA x, y : <<20 * x + y, 255 - 30 * y, 7>>)
BgImages == {BgWhite, BgGrad}

\* A file that is missing, that Image.open cannot identify, or whose pixel
\* data fails to decode when first loaded; or a good file and its raster.
BadFiles == {[state |-> st, image |-> None] : st \in {"missing", "unidentified", "truncated"}}
GoodFiles(images) == {[state |-> "ok", image |-> im] : im \in images}

MissingFile == [state |-> "missing", image |-> None]

\* Before create_masked_overlay has assigned any of its locals.
Blank ==
    /\ bbox = None
    /\ bulged_apple = None
    /\ bulged_apple_gray = None
    /\ bulged_apple_rgba = None
    /\ bulged_yake = None
    /\ clipped_yake_rgba = None
    /\ final_composition = None
    /\ output = None
    /\ console = ""
    /\ trace = <<>>

\* A call of create_masked_overlay(bg_file, target_file, mask_file, output_dir, bbox_file).
Init ==
    /\ pc = "start"
    /\ SCIPY_AVAILABLE \in BOOLEAN
    /\ bbox_path \in {None, BoxPath}
    /\ files \in {[mask |-> m, target |-> t, background |-> b, bbox |-> f] :
                    m \in BadFiles \cup GoodFiles(RefImages),
                    t \in BadFiles \cup GoodFiles(TargetImages),
                    b \in BadFiles \cup GoodFiles(BgImages),
                    f \in RunBoxFiles}
    /\ Blank

Next ==
    \/ CheckInputs
    \/ OpenImages
    \/ LoadBox
    \/ Detect
    \/ Layer1Warp
    \/ Layer1Mask
    \/ Layer2Warp
    \/ Layer2Alpha
    \/ ConvertBackground
    \/ PasteLayer1
    \/ PasteLayer2
    \/ Save

Spec == Init /\ [][Next]_vars

\* ------------------------------------------- the reader applied on its own
InitLoad ==
    /\ pc = "load"
    /\ SCIPY_AVAILABLE = TRUE
    /\ bbox_path = BoxPath
    /\ files \in {[mask |-> MissingFile, target |-> MissingFile, background |-> MissingFile,
                    bbox |-> f] : f \in AllBoxFiles}
    /\ Blank

\* bbox = load_bounding_box(bbox_path)
LoadCall ==
    /\ pc = "load"
    /\ bbox' = load_bounding_box(files.bbox)
    /\ pc' = "loaded"
    /\ UNCHANGED <<SCIPY_AVAILABLE, files, bbox_path, bulged_apple, bulged_apple_gray,
                   bulged_apple_rgba, bulged_yake, clipped_yake_rgba, final_composition,
                   output, console, trace>>

NextLoad == LoadCall

SpecLoad == InitLoad /\ [][NextLoad]_vars

\* --------------------------------------------- the warp applied on its own
\* The boxes the warp is applied to: every corner pair on the raster (zero-area
\* and inverted ones included) and three boxes reaching beyond it.
Boxes ==
    {<<a, b, c, d>> : a \in Xs, b \in Ys, c \in Xs, d \in Ys}
    \cup {<<-2, -2, 3, 3>>, <<5, 5, 20, 20>>, <<3, 1, Width + 2, Height + 1>>}

InitWarp ==
    /\ pc = "warp"
    /\ SCIPY_AVAILABLE \in BOOLEAN
    /\ bbox_path = None
    /\ files \in {[mask |-> m, target |-> MissingFile, background |-> MissingFile,
                    bbox |-> AbsentFile] : m \in GoodFiles({RefCone, RefColour})}
    /\ bbox \in Boxes
    /\ bulged_apple = None
    /\ bulged_apple_gray = None
    /\ bulged_apple_rgba = None
    /\ bulged_yake = None
    /\ clipped_yake_rgba = None
    /\ final_composition = None
    /\ output = None
    /\ console = ""
    /\ trace = <<>>

\* bulged_apple = apply_bulge_effect(mask_img.convert("RGB"), bbox)
WarpCall ==
    /\ pc = "warp"
    /\ bulged_apple' = apply_bulge_effect(ConvertRGB(files.mask.image), bbox)
    /\ pc' = "warped"
    /\ UNCHANGED <<SCIPY_AVAILABLE, files, bbox_path, bbox, bulged_apple_gray,
                   bulged_apple_rgba, bulged_yake, clipped_yake_rgba, final_composition,
                   output, console, trace>>

NextWarp == WarpCall

SpecWarp == InitWarp /\ [][NextWarp]_vars

\* =================================================================== claims

\* The reader of the specification's text format: the lines of the file, the
\* blank ones and the ones starting with '#' dropped, and of the rest the
\* first that holds exactly four integers.
RECURSIVE SplitLinesFrom(_, _, _, _)
SplitLinesFrom(s, i, cur, acc) ==
    IF i > Len(s) THEN Append(acc, cur)
    ELSE IF s[i] = "\n" THEN SplitLinesFrom(s, i + 1, <<>>, Append(acc, cur))
    ELSE SplitLinesFrom(s, i + 1, Append(cur, s[i]), acc)

LinesOf(content) == SplitLinesFrom(content, 1, <<>>, <<>>)

IsBlankLine(line) == \A i \in 1 .. Len(line) : line[i] \in Whitespace
IsHashLine(line) == Len(line) > 0 /\ line[1] = "#"

IsWellFormedLine(line) ==
    LET tokens == Split(ReplaceCommas(line))
    IN Len(tokens) = 4 /\ \A i \in 1 .. 4 : IsIntToken(tokens[i])

BoxOfLine(line) == [i \in 1 .. 4 |-> IntOf(Split(ReplaceCommas(line))[i])]

FirstWellFormedLine(file) ==
    LET ls == LinesOf(file.content)
        kept == {i \in 1 .. Len(ls) :
                    ~IsBlankLine(ls[i]) /\ ~IsHashLine(ls[i]) /\ IsWellFormedLine(ls[i])}
    IN IF ~file.exists \/ kept = {} THEN None
       ELSE BoxOfLine(ls[CHOOSE i \in kept : \A j \in kept : i <= j])

HasHashLine(file) == \E i \in 1 .. Len(LinesOf(file.content)) : IsHashLine(LinesOf(file.content)[i])

NonBlankLines(file) ==
    {i \in 1 .. Len(LinesOf(file.content)) : ~IsBlankLine(LinesOf(file.content)[i])}

\* C1 as stated: load_bounding_box ignores blank lines and lines starting
\* with '#' and returns the four integers of the first remaining well-formed
\* line.
C1_FirstWellFormedLine == pc = "loaded" => bbox = FirstWellFormedLine(files.bbox)

\* C1 amended: load_bounding_box reads the whole file as one list of tokens.
\* It ignores blank lines and, when the only non-blank line of the file is
\* not a '#' line, returns that line's four integers if it is well-formed and
\* None if not; a file with a '#' line, like a file that is absent, yields None.
C1_WholeContent ==
    pc = "loaded" =>
        /\ ~files.bbox.exists => bbox = None
        /\ HasHashLine(files.bbox) => bbox = None
        /\ (files.bbox.exists /\ ~HasHashLine(files.bbox)
                /\ Cardinality(NonBlankLines(files.bbox)) = 1)
            => bbox = FirstWellFormedLine(files.bbox)

\* A blank line, then a comma-separated box: the box is returned.
C1_Witness ==
    /\ pc = "loaded"
    /\ files.bbox = TextFile(<<LineBlank, LineFull>>)
    /\ bbox = <<0, 0, 5, 4>>

\* The claim's test that (x, y) lies outside the ellipse inscribed in the box:
\* ((x - cx) / rx)^2 + ((y - cy) / ry)^2 > 1, cleared of its denominators.
OutsideEllipse(x, y, box) ==
    (2 * x - (box[1] + box[3])) * (2 * x - (box[1] + box[3]))
        * (box[4] - box[2]) * (box[4] - box[2])
    + (2 * y - (box[2] + box[4])) * (2 * y - (box[2] + box[4]))
        * (box[3] - box[1]) * (box[3] - box[1])
    > (box[3] - box[1]) * (box[3] - box[1]) * (box[4] - box[2]) * (box[4] - box[2])

ProperBox(box) == box[1] < box[3] /\ box[2] < box[4]

\* C7: for a box with min_x < max_x and min_y < max_y, every destination
\* pixel outside the inscribed ellipse has itself as source coordinate, and
\* the warped raster equals the input there.
C7_OutsideIdentity ==
    pc = "warped" =>
        \A x \in Xs, y \in Ys :
            (ProperBox(bbox) /\ OutsideEllipse(x, y, bbox)) =>
                /\ SCIPY_AVAILABLE =>
                       /\ MapX(x, y, bbox) = 2 * x * Scale
                       /\ MapY(x, y, bbox) = 2 * y * Scale
                /\ Px(bulged_apple, x, y) = Px(files.mask.image, x, y)

\* The warp has changed the raster, and the box leaves pixels outside its ellipse.
C7_Witness ==
    /\ pc = "warped"
    /\ SCIPY_AVAILABLE
    /\ ProperBox(bbox)
    /\ bulged_apple # files.mask.image
    /\ \E x \in Xs, y \in Ys : OutsideEllipse(x, y, bbox)

\* The strengths a caller may ask for, in Scale units.
Strengths == {0, Scale \div 2, Scale}

InsideRaster(box) ==
    /\ 0 <= box[1] /\ box[3] <= Width - 1
    /\ 0 <= box[2] /\ box[4] <= Height - 1

NothingBuilt ==
    /\ bulged_apple = None
    /\ bulged_apple_gray = None
    /\ bulged_apple_rgba = None
    /\ bulged_yake = None
    /\ clipped_yake_rgba = None
    /\ final_composition = None
    /\ output = None

AllGood == \A n \in InputNames : files[n].state = "ok"

\* C2 as stated: a box that apply_bulge_effect has been given has
\* min_x < max_x and min_y < max_y.
C2_ProperBoxOnly == (SCIPY_AVAILABLE /\ bulged_apple # None) => ProperBox(bbox)

\* The box file of the run yields no explicit box: no path given, no file,
\* fewer than four tokens, or a token that is no integer.
NoExplicitBox ==
    \/ bbox_path = None
    \/ files.bbox \in {AbsentFile, TextFile(<<LineShort>>), TextFile(<<LineComment, LineFull>>)}

Opened == \A n \in InputNames : files[n].state \in {"ok", "truncated"}

AllBelowThreshold(image) == \A x \in Xs, y \in Ys : Luma(Px(image, x, y)) < Threshold

\* C3: with no explicit box and a reference raster wholly below the
\* threshold, the run ends with the no-subject error, with no warp, mask or
\* composite step executed and no output written.
C3_NoSubjectAborts ==
    (Opened /\ NoExplicitBox /\ files.mask.state = "ok"
        /\ AllBelowThreshold(files.mask.image)) =>
        /\ NothingBuilt
        /\ \A i \in 1 .. Len(trace) : trace[i] = "bbox"
        /\ pc = "done" => console = NoShape

\* A box file of three tokens and a raster just under the threshold.
C3_Witness ==
    /\ pc = "done"
    /\ console = NoShape
    /\ bbox_path = BoxPath
    /\ files.bbox = TextFile(<<LineShort>>)
    /\ files.mask.image = RefDim

\* C4: an absent or malformed box source is no failure: the reader returns
\* no box, the box is detected on the reference raster, and with good inputs
\* and a pixel at or over the threshold the run writes its output.
C4_FallsBackToDetection ==
    (AllGood /\ NoExplicitBox /\ ~AllBelowThreshold(files.mask.image)) =>
        /\ console \notin {FileMissing, NoShape, Failed, UsingFile}
        /\ pc = "detect" => bbox = None
        /\ pc \notin {"start", "open", "bbox", "detect"} =>
               (bbox # None /\ console \in {Detected, Success})
        /\ pc = "done" => (console = Success /\ output # None)

\* A box file with a comment line, and an output written from a detected box.
C4_Witness ==
    /\ pc = "done"
    /\ output # None
    /\ bbox_path = BoxPath
    /\ files.bbox = TextFile(<<LineComment, LineFull>>)
    /\ bbox = <<0, 0, Width - 1, Height - 1>>

\* C5: without scipy, apply_bulge_effect returns its input for every box, both
\* layers are the undistorted rasters, the mask comes from the undistorted
\* reference, and a run with good inputs and a box writes the composite of them.
C5_IdentityFallback ==
    (~SCIPY_AVAILABLE /\ AllGood) =>
        /\ \A b \in Boxes : apply_bulge_effect(files.mask.image, b) = files.mask.image
        /\ console # Failed
        /\ bulged_apple # None => bulged_apple = files.mask.image
        /\ bulged_apple_gray # None =>
               bulged_apple_gray = GaussianBlur(ConvertL(files.mask.image))
        /\ bulged_yake # None => bulged_yake = files.target.image
        /\ (pc = "done" /\ bbox # None) =>
               output = Paste(Paste(ConvertRGBA(files.background.image),
                                    PutAlpha(ConvertRGBA(files.mask.image), bulged_apple_gray)),
                              PutAlpha(ConvertRGBA(files.target.image), bulged_apple_gray))

\* Without scipy, a run on the cone with a box that would have bulged it.
C5_Witness ==
    /\ ~SCIPY_AVAILABLE
    /\ pc = "done"
    /\ output # None
    /\ files.mask.image = RefCone
    /\ bbox = <<0, 0, Width - 1, Height - 1>>

\* C6 as stated: with an input that cannot be located or decoded, no stage
\* of box resolution, warp, mask or composite runs and nothing is written.
C6_NothingRuns ==
    ~AllGood => (trace = <<>> /\ bbox = None /\ NothingBuilt)

\* C6 amended: with an input that is missing or that Image.open cannot
\* identify, no stage runs; with an input whose pixel data fails to decode
\* when first loaded, the run ends in the error message at that stage; in
\* both cases nothing is written, and an output is written only in runs
\* where all three inputs were good and a box was resolved.
C6_AbortsWithoutOutput ==
    /\ ~Opened => (trace = <<>> /\ bbox = None /\ NothingBuilt)
    /\ ((\E n \in InputNames : files[n].state = "missing") /\ pc = "done") =>
           console = FileMissing
    /\ ~AllGood => output = None
    /\ (~AllGood /\ pc = "done") => console \in {FileMissing, Failed, NoShape}
    /\ output # None => (AllGood /\ bbox # None /\ console = Success)

\* A run ended by the existence check, the target being the missing input.
C6_Witness ==
    /\ pc = "done"
    /\ console = FileMissing
    /\ files.target.state = "missing"
    /\ files.mask.state = "ok"
    /\ files.background.state = "ok"

\* After a paste of the layer, every pixel under alpha 255 is the layer's
\* and every pixel under alpha 0 is what it was.
PastedOver(before, after, layer) ==
    \A x \in Xs, y \in Ys :
        /\ Px(layer, x, y)[4] = 255 => Px(after, x, y) = Px(layer, x, y)
        /\ Px(layer, x, y)[4] = 0 => Px(after, x, y) = Px(before, x, y)

Opaque(p) == <<p[1], p[2], p[3], 255>>

\* In the composite every pixel under mask 255 is the warped target's and
\* every pixel under mask 0 the background's.
TargetOverBackground ==
    \A x \in Xs, y \in Ys :
        /\ Px(bulged_apple_gray, x, y) = 255 =>
               Px(final_composition, x, y) = Opaque(Px(bulged_yake, x, y))
        /\ Px(bulged_apple_gray, x, y) = 0 =>
               Px(final_composition, x, y) = Opaque(Px(files.background.image, x, y))

\* C9: the composite starts as the RGBA background; the warped reference is
\* pasted first and the warped target second, each paste leaving the layer's
\* pixel under alpha 255 and the prior pixel under alpha 0; so the final image
\* shows the warped target under mask 255 and the background under mask 0.
C9_PasteOrder ==
    [][/\ pc = "background" /\ pc' = "paste1" =>
              final_composition' = ConvertRGBA(files.background.image)
       /\ pc = "paste1" =>
              /\ pc' = "paste2"
              /\ PastedOver(final_composition, final_composition', bulged_apple_rgba)
       /\ pc = "paste2" =>
              /\ pc' = "save"
              /\ PastedOver(final_composition, final_composition', clipped_yake_rgba)
              /\ TargetOverBackground'
       /\ pc = "save" => output' = final_composition]_vars

\* A composite with a pixel under mask 255 where target, reference and
\* background all differ, and a pixel under mask 0 where target and
\* background differ.
C9_Witness ==
    /\ pc = "save"
    /\ \E x \in Xs, y \in Ys :
           /\ Px(bulged_apple_gray, x, y) = 255
           /\ Px(bulged_yake, x, y) # Px(files.background.image, x, y)
           /\ Px(bulged_yake, x, y) # Px(bulged_apple, x, y)
           /\ Px(bulged_apple, x, y) # Px(files.background.image, x, y)
    /\ \E x \in Xs, y \in Ys :
           /\ Px(bulged_apple_gray, x, y) = 0
           /\ Px(bulged_yake, x, y) # Px(files.background.image, x, y)

\* C10: once both layers exist, the alpha of each is, pixel for pixel, the one
\* mask made from the warped reference (its grayscale, blurred).
C10_SharedMask ==
    clipped_yake_rgba # None =>
        /\ bulged_apple_gray = GaussianBlur(ConvertL(bulged_apple))
        /\ \A x \in Xs, y \in Ys :
               /\ Px(bulged_apple_rgba, x, y)[4] = Px(bulged_apple_gray, x, y)
               /\ Px(clipped_yake_rgba, x, y)[4] = Px(bulged_apple_gray, x, y)

\* Both layers exist and a mask made from the target would have differed.
C10_Witness ==
    /\ clipped_yake_rgba # None
    /\ SCIPY_AVAILABLE
    /\ GaussianBlur(ConvertL(bulged_yake)) # bulged_apple_gray

====
